---- MODULE Spec2Model ----
(***************************************************************************)
(* A model of the MemMachine playground: the Streamlit chat application    *)
(* (src/app.py) and its memory gateway client (src/gateway_client.py).     *)
(*                                                                         *)
(* Text is modelled as a sequence of tokens (a token is a TLA+ string: a   *)
(* word, a blank, or a fixed literal of the source), so that               *)
(* concatenation is \o, str.strip() removes leading and trailing blanks    *)
(* and str.lower() maps each token to its lower-case form.                 *)
(*                                                                         *)
(* One step of the model is one user interaction: one top-to-bottom run    *)
(* of the script with the handler of the widget that fired, followed by    *)
(* the immediate second run when the handler ends in st.rerun().           *)
(***************************************************************************)
EXTENDS Integers, Sequences, FiniteSets, TLC

\* ------------------------------------------------------------------ bounds
\* At most this many sessions exist at a time (create is disabled beyond it).
MaxSessions == 3
\* A message is submitted only while all histories together hold fewer turns.
MaxTurns == 3
\* The same, where several sessions are open (SpecSessions).
MaxSessionTurns == 2
\* In the identity specification: turns in all histories before a submission,
\* and sessions.
MaxIdentityTurns == 1
MaxIdentitySessions == 2

\* ------------------------------------------------------------------- text
\* A key that st.session_state does not hold (no stored name is ever empty).
Absent == <<>>

IsSpace(t) == t \in {" ", "\t", "\n"}

\* str.strip(): the text without its leading and trailing whitespace.
Strip(s) ==
    LET keep == {i \in 1..Len(s) : ~IsSpace(s[i])}
        lo == CHOOSE i \in keep : \A j \in keep : i <= j
        hi == CHOOSE i \in keep : \A j \in keep : j <= i
    IN  IF keep = {} THEN <<>> ELSE SubSeq(s, lo, hi)

LowerTok(t) ==
    CASE t = "Control" -> "control"
      [] t = "Charlie" -> "charlie"
      [] t = "Jing" -> "jing"
      [] t = "Charles" -> "charles"
      [] t = "Arnold" -> "arnold"
      [] OTHER -> t

\* str.lower()
Lower(s) == [i \in 1..Len(s) |-> LowerTok(s[i])]

Digit == <<"1", "2", "3", "4", "5", "6", "7", "8", "9">>

RECURSIVE DecStr(_)
\* f"{idx}": the decimal digits of a positive integer.
DecStr(n) ==
    IF n < 10 THEN <<Digit[n]>>
    ELSE DecStr(n \div 10) \o <<IF n % 10 = 0 THEN "0" ELSE Digit[n % 10]>>

InSeq(x, s) == \E i \in 1..Len(s) : s[i] = x

\* list.index(x): the first position of x.
IndexOf(x, s) == CHOOSE i \in 1..Len(s) : s[i] = x /\ \A j \in 1..(i - 1) : s[j] # x

\* list.remove(x): the list without the first occurrence of x.
RemoveFirst(x, s) ==
    LET k == IndexOf(x, s)
    IN  SubSeq(s, 1, k - 1) \o SubSeq(s, k + 1, Len(s))

\* dict.pop(k): the mapping without key k.
DropKey(f, k) == [n \in DOMAIN f \ {k} |-> f[n]]

\* d[k] = v on a dict.
PutKey(f, k, v) == [n \in DOMAIN f \cup {k} |-> IF n = k THEN v ELSE f[n]]

EmptyDict == [n \in {} |-> [history |-> <<>>]]

\* ------------------------------------------------------------------ state
VARIABLES
    sessions,                  \* st.session_state.sessions: name -> {"history": [...]}
    session_order,             \* st.session_state.session_order
    active_session_id,         \* st.session_state.active_session_id
    session_select,            \* st.session_state.session_select
    history,                   \* st.session_state.history: the session whose list it aliases
    rename_session_name,       \* st.session_state.rename_session_name
    rename_session_synced_to,  \* st.session_state.rename_session_synced_to
    memmachine_enabled,        \* st.session_state.memmachine_enabled (the checkbox)
    compare_personas,          \* st.session_state.compare_personas (the checkbox)
    show_rationale,            \* the "Show Persona Rationale" checkbox
    selected_persona,          \* the persona selectbox
    custom_persona,            \* the "Or enter your name" text input
    BACKEND_API_KEY,           \* gateway_client.BACKEND_API_KEY (empty: not configured)
    is_hf_space,               \* SPACE_ID or HF_ENDPOINT is set in the environment
    hf_user_id,                \* SPACE_USER or HF_USERNAME or HF_USER (empty: none set)
    hf_authenticated_user,     \* st.session_state.hf_authenticated_user (empty: no key)
    hf_token,                  \* st.session_state.hf_token (empty: no key)
    memories_preview,          \* st.session_state.memories_preview (empty: None)
    imported_memories_text,    \* st.session_state.imported_memories_text
    calls,                     \* the calls the last interaction made, in order
    requests,                  \* the HTTP requests the last interaction sent, in order
    last                       \* the last interaction: handler, arguments, how it ended

sessVars == <<sessions, session_order, active_session_id, session_select, history,
              rename_session_name, rename_session_synced_to>>
toggleVars == <<memmachine_enabled, compare_personas, show_rationale>>
personaVars == <<selected_persona, custom_persona>>
envVars == <<is_hf_space, hf_user_id>>
authVars == <<hf_authenticated_user, hf_token>>
importVars == <<memories_preview, imported_memories_text>>
vars == <<sessVars, toggleVars, personaVars, BACKEND_API_KEY, envVars, authVars,
          importVars, calls, requests, last>>

\* The session part of st.session_state as one value.
SS == [sessions |-> sessions,
       session_order |-> session_order,
       active_session_id |-> active_session_id,
       session_select |-> session_select,
       history |-> history,
       rename_session_name |-> rename_session_name,
       rename_session_synced_to |-> rename_session_synced_to]

SetSS(S) ==
    /\ sessions' = S.sessions
    /\ session_order' = S.session_order
    /\ active_session_id' = S.active_session_id
    /\ session_select' = S.session_select
    /\ history' = S.history
    /\ rename_session_name' = S.rename_session_name
    /\ rename_session_synced_to' = S.rename_session_synced_to

\* st.session_state before the first run: no key is set.
EmptyState == [sessions |-> EmptyDict,
               session_order |-> <<>>,
               active_session_id |-> Absent,
               session_select |-> Absent,
               history |-> Absent,
               rename_session_name |-> Absent,
               rename_session_synced_to |-> Absent]

\* ------------------------------------------------------- session functions
\* A session name numbered by the count of the sessions.
_generate_session_name_ByCount(S) ==
    <<"Session", " ">> \o DecStr(Len(S.session_order) + 1)

_generate_session_name(S) ==
    LET existing == {S.session_order[i] : i \in 1..Len(S.session_order)}
        candidate(idx) == <<"Session", " ">> \o DecStr(idx)
    IN  candidate(CHOOSE k \in 1..(Len(S.session_order) + 1) :
                      /\ candidate(k) \notin existing
                      /\ \A j \in 1..(k - 1) : candidate(j) \in existing)

\* ensure_session_state, lines 30-38, once default_name is generated.
EnsureDefault(S, default_name) ==
    [S EXCEPT
       !.sessions = IF default_name \in DOMAIN @ THEN @
                    ELSE PutKey(@, default_name, [history |-> <<>>]),
       !.session_order = IF InSeq(default_name, @) THEN @
                         ELSE Append(@, default_name),
       !.active_session_id = default_name]

\* ensure_session_state, lines 30-38: a missing or unknown active session.
EnsureActive(S) ==
    IF S.active_session_id \notin DOMAIN S.sessions
    THEN EnsureDefault(S, _generate_session_name(S))
    ELSE S

\* ensure_session_state, lines 39-48: session_select and the rename fields.
EnsureFields(S) ==
    [S EXCEPT
       !.session_select =
           IF @ \notin DOMAIN S.sessions THEN S.active_session_id ELSE @,
       !.rename_session_name = IF @ = Absent THEN S.active_session_id ELSE @,
       !.rename_session_synced_to = IF @ = Absent THEN S.active_session_id ELSE @]

\* ensure_session_state, lines 49-54: history aliases the active session's list.
EnsureHistory(S) == [S EXCEPT !.history = S.active_session_id]

ensure_session_state(S) == EnsureHistory(EnsureFields(EnsureActive(S)))

\* create_session without its check that the name is free.
CreateCandidate_Unchecked(S, candidate) ==
    [st |-> [S EXCEPT
               !.sessions = PutKey(@, candidate, [history |-> <<>>]),
               !.session_order = Append(@, candidate),
               !.active_session_id = candidate,
               !.session_select = candidate,
               !.history = candidate,
               !.rename_session_name = candidate,
               !.rename_session_synced_to = candidate],
     ok |-> TRUE, name |-> candidate]

\* create_session, lines 62-73, for the candidate name: the state it leaves and
\* the pair it returns.
CreateCandidate(S, candidate) ==
    IF candidate \in DOMAIN S.sessions
    THEN [st |-> S, ok |-> FALSE, name |-> candidate]
    ELSE [st |-> [S EXCEPT
                    !.sessions = PutKey(@, candidate, [history |-> <<>>]),
                    !.session_order = Append(@, candidate),
                    !.active_session_id = candidate,
                    !.session_select = candidate,
                    !.history = candidate,
                    !.rename_session_name = candidate,
                    !.rename_session_synced_to = candidate],
          ok |-> TRUE, name |-> candidate]

\* create_session, lines 59-61: the candidate of a typed name.
CreateStripped(S, stripped) ==
    CreateCandidate(S, IF stripped = <<>> THEN _generate_session_name(S) ELSE stripped)

create_session(S, session_name) ==
    CreateStripped(ensure_session_state(S), Strip(session_name))

\* rename_session moving the renamed session to the end of the order list.
RenameMove_ToEnd(S, current_name, target, active) ==
    [S EXCEPT
       !.sessions = PutKey(DropKey(@, current_name), target, S.sessions[current_name]),
       !.session_order = Append(RemoveFirst(current_name, @), target),
       !.active_session_id = active,
       !.session_select = IF S.active_session_id = current_name THEN target ELSE @,
       !.history = active,
       !.rename_session_name = target,
       !.rename_session_synced_to = target]

\* rename_session, lines 83-95: the move of current_name's entry to target.
\* rename_session making the renamed session the active one.
RenameMove_Activates(S, current_name, target, active) ==
    [S EXCEPT
       !.sessions = PutKey(DropKey(@, current_name), target, S.sessions[current_name]),
       !.session_order = [@ EXCEPT ![IndexOf(current_name, S.session_order)] = target],
       !.active_session_id = target,
       !.session_select = target,
       !.history = target,
       !.rename_session_name = target,
       !.rename_session_synced_to = target]

RenameMove(S, current_name, target, active) ==
    [S EXCEPT
       !.sessions = PutKey(DropKey(@, current_name), target, S.sessions[current_name]),
       !.session_order = [@ EXCEPT ![IndexOf(current_name, S.session_order)] = target],
       !.active_session_id = active,
       !.session_select = IF S.active_session_id = current_name THEN target ELSE @,
       !.history = active,
       !.rename_session_name = target,
       !.rename_session_synced_to = target]

\* rename_session, lines 79-95, for the stripped target.
RenameTarget(S, current_name, target) ==
    IF target = <<>> \/ target = current_name
    THEN [st |-> S, ok |-> FALSE]
    ELSE IF target \in DOMAIN S.sessions
    THEN [st |-> S, ok |-> FALSE]
    ELSE [st |-> RenameMove(S, current_name, target,
                            IF S.active_session_id = current_name THEN target
                            ELSE S.active_session_id),
          ok |-> TRUE]

\* rename_session for a current_name that is a session (the only way it is called).
rename_session(S, current_name, new_name) ==
    RenameTarget(ensure_session_state(S), current_name, Strip(new_name))

\* delete_session, lines 106-114, once the entry is removed.
DeleteActivate(S, wasActive, active) ==
    [S EXCEPT
       !.active_session_id = active,
       !.session_select = IF wasActive THEN active ELSE @,
       !.rename_session_name = IF wasActive THEN active ELSE @,
       !.rename_session_synced_to = IF wasActive THEN active ELSE @,
       !.history = active]

\* delete_session removing the entry from the order list only.
DeleteEntry_OrderOnly(S, session_name) ==
    [S EXCEPT !.session_order = RemoveFirst(session_name, @)]

\* delete_session, lines 104-105: the entry leaves the registry and the order.
DeleteEntry(S, session_name) ==
    [S EXCEPT !.sessions = DropKey(@, session_name),
              !.session_order = RemoveFirst(session_name, @)]

\* delete_session leaving the active pointer on the deleted session.
ActiveAfterDelete_Stale(S, session_name, wasActive) == session_name

\* delete_session activating the first session of the remaining order list.
ActiveAfterDelete_First(S, session_name, wasActive) ==
    IF wasActive THEN S.session_order[1]
    ELSE S.active_session_id

\* The session that is active once session_name is gone from S (line 107).
ActiveAfterDelete(S, session_name, wasActive) ==
    IF wasActive THEN S.session_order[Len(S.session_order)]
    ELSE S.active_session_id

\* delete_session emptying the rename field when it refuses.
DeleteChecked_ResetsField(S, session_name) ==
    IF session_name \notin DOMAIN S.sessions \/ Len(S.session_order) <= 1
    THEN [st |-> [S EXCEPT !.rename_session_name = <<>>], ok |-> FALSE]
    ELSE [st |-> DeleteActivate(DeleteEntry(S, session_name),
                     S.active_session_id = session_name,
                     ActiveAfterDelete(DeleteEntry(S, session_name), session_name,
                                       S.active_session_id = session_name)),
          ok |-> TRUE]

\* delete_session, lines 100-115.
DeleteChecked(S, session_name) ==
    IF session_name \notin DOMAIN S.sessions
    THEN [st |-> S, ok |-> FALSE]
    ELSE IF Len(S.session_order) <= 1
    THEN [st |-> S, ok |-> FALSE]
    ELSE [st |-> DeleteActivate(DeleteEntry(S, session_name),
                     S.active_session_id = session_name,
                     ActiveAfterDelete(DeleteEntry(S, session_name), session_name,
                                       S.active_session_id = session_name)),
          ok |-> TRUE]

delete_session(S, session_name) ==
    DeleteChecked(ensure_session_state(S), session_name)

\* ------------------------------------------------------- gateway client
\* What one HTTP request can end in: a 2xx response, a 4xx/5xx response, or a
\* requests exception (a refused connection, a timeout).
NetOutcomes == {"ok", "http_error", "conn_error", "timeout"}
IsRequestException(net) == net \in {"conn_error", "timeout"}
ExceptionOf(net) ==
    CASE net = "conn_error" -> "ConnectionError"
      [] net = "timeout" -> "Timeout"
      [] net = "http_error" -> "HTTPError"
      [] OTHER -> ""

\* The module constant PROMPT. Its {current_date} placeholder is a token of its own.
PROMPT == <<"You are a helpful AI assistant. [...] <CURRENT_DATE>\n",
            "{current_date}",
            "\n</CURRENT_DATE> [...] follow-up questions or suggestions">>

\* The headers without the API key.
Headers_NoKey(user_id, key) ==
    [h \in {"user-id", "group-id", "session-id", "agent-id"} |->
        IF h = "agent-id" THEN <<"agent">> ELSE user_id]

\* The headers every gateway function builds; key is BACKEND_API_KEY.
Headers(user_id, key) ==
    [h \in {"user-id", "group-id", "session-id", "agent-id"}
           \cup (IF key # <<>> THEN {"x-api-key"} ELSE {}) |->
        CASE h = "agent-id" -> <<"agent">>
          [] h = "x-api-key" -> key
          [] OTHER -> user_id]

\* ingest_and_rewrite with the outcomes of its two requests and the search
\* response's body: the requests sent, the exception raised ("" for none), the
\* string returned.
ingest_and_rewrite(user_id, query, key, post, search, body) ==
    LET headers == Headers(user_id, key)
        episode == [method |-> "POST", path |-> "/v1/memories",
                    json |-> [producer |-> user_id, produced_for |-> <<"agent">>,
                              episode_content |-> query],
                    headers |-> headers, timeout |-> 5]
        query_req == [method |-> "POST", path |-> "/v1/memories/search",
                      json |-> [query |-> query],
                      headers |-> headers, timeout |-> 1000]
    IN  IF IsRequestException(post)
        THEN [requests |-> <<episode>>, raised |-> ExceptionOf(post), ret |-> <<>>]
        ELSE IF search # "ok"
        THEN [requests |-> <<episode, query_req>>, raised |-> ExceptionOf(search),
              ret |-> <<>>]
        ELSE [requests |-> <<episode, query_req>>, raised |-> "",
              ret |-> PROMPT \o <<"\n\n">> \o body \o <<"\n\n">>
                      \o <<"User Query: ">> \o query]

\* get_memories: ret is "json" for the response's payload, "{}" for the default.
get_memories(user_id, key, net) ==
    LET headers == Headers(user_id, key)
        req == [method |-> "GET", path |-> "/v1/memories",
                headers |-> headers, timeout |-> 10]
    IN  IF net = "ok"
        THEN [requests |-> <<req>>, raised |-> "", ret |-> "json"]
        ELSE [requests |-> <<req>>, raised |-> "", ret |-> "{}"]

ingest_memories(user_id, memories_text, key, net) ==
    LET headers == Headers(user_id, key)
        req == [method |-> "POST", path |-> "/v1/memories",
                json |-> [producer |-> user_id, produced_for |-> <<"agent">>,
                          episode_content |-> memories_text],
                headers |-> headers, timeout |-> 10]
    IN  IF net = "ok"
        THEN [requests |-> <<req>>, raised |-> "", ret |-> TRUE]
        ELSE [requests |-> <<req>>, raised |-> "", ret |-> FALSE]

\* delete_profile: no try/except and no raise_for_status around requests.delete.
delete_profile(user_id, key, net) ==
    LET headers == Headers(user_id, key)
        req == [method |-> "DELETE", path |-> "/v1/memories",
                headers |-> headers, json |-> <<>>]
    IN  IF IsRequestException(net)
        THEN [requests |-> <<req>>, raised |-> ExceptionOf(net), ret |-> FALSE]
        ELSE [requests |-> <<req>>, raised |-> "", ret |-> TRUE]

\* ------------------------------------------------------ message rewriting
RationaleNone ==
    <<" At the beginning of your response, please say the following in ITALIC: 'Persona Rationale: No personalization applied.'. Begin your answer on the next line.">>
RationalePersona ==
    <<" At the beginning of your response, please say the following in ITALIC: 'Persona Rationale: ' followed by 1 sentence [...]. Begin your answer on the next line.">>

\* rewrite_message without its test for the Control persona.
BypassMemory_ToggleOnly(persona_name, use_memory) == ~use_memory

\* Whether rewrite_message leaves the memory service out.
BypassMemory(persona_name, use_memory) ==
    ~use_memory \/ Lower(persona_name) = <<"control">>

\* rewrite_message, lines 128-138, on the result r of ingest_and_rewrite.
Rewritten(r, persona_name, show) ==
    [calls |-> <<[fn |-> "ingest_and_rewrite", persona |-> persona_name, msgs |-> <<>>]>>,
     requests |-> r.requests,
     raised |-> r.raised,
     ret |-> IF r.raised # "" THEN <<>>
             ELSE IF show THEN r.ret \o RationalePersona ELSE r.ret]

\* rewrite_message: the ingest_and_rewrite calls made, the requests sent, the
\* exception re-raised ("" for none) and the text returned.
rewrite_message(msg, persona_name, show, use_memory, key, env) ==
    IF BypassMemory(persona_name, use_memory)
    THEN [calls |-> <<>>, requests |-> <<>>, raised |-> "",
          ret |-> IF show THEN msg \o RationaleNone ELSE msg]
    ELSE Rewritten(ingest_and_rewrite(persona_name, msg, key, env.post, env.search,
                                      env.body),
                   persona_name, show)

\* ------------------------------------------------------- history cleaning
RECURSIVE Collapse(_, _, _, _)
\* clean_history without the collapse of same-role runs.
Collapse_KeepAll(out, i, cleaned, last_role) == out

\* The second loop of clean_history, from entry i on.
Collapse(out, i, cleaned, last_role) ==
    IF i > Len(out) THEN cleaned
    ELSE IF out[i].role # last_role
    THEN Collapse(out, i + 1, Append(cleaned, out[i]), out[i].role)
    ELSE Collapse(out, i + 1, cleaned, last_role)

\* The first loop of clean_history keeping the comparison turns as well.
FilterTurns_All(hist, persona) ==
    LET kept == SelectSeq(hist, LAMBDA turn :
                    \/ turn.role \in {"user", "assistant_all"}
                    \/ (turn.role = "assistant" /\ turn.persona = persona))
    IN  [i \in 1..Len(kept) |-> [role |-> kept[i].role, content |-> kept[i].content]]

\* The first loop of clean_history: the user turns and the single-answer turns
\* of persona, reduced to role and content.
FilterTurns(hist, persona) ==
    LET kept == SelectSeq(hist, LAMBDA turn :
                    \/ turn.role = "user"
                    \/ (turn.role = "assistant" /\ turn.persona = persona))
    IN  [i \in 1..Len(kept) |-> [role |-> kept[i].role, content |-> kept[i].content]]

clean_history(hist, persona) == Collapse(FilterTurns(hist, persona), 1, <<>>, "None")

\* append_user_turn appending whatever the list ends with.
append_user_turn_Always(msgs, new_user_msg) ==
    Append(msgs, [role |-> "user", content |-> new_user_msg])

append_user_turn(msgs, new_user_msg) ==
    IF msgs # <<>> /\ msgs[Len(msgs)].role = "user"
    THEN [msgs EXCEPT ![Len(msgs)] = [role |-> "user", content |-> new_user_msg]]
    ELSE Append(msgs, [role |-> "user", content |-> new_user_msg])

\* --------------------------------------------------- one run of the script
\* The sidebar's rename sync at the top of every run.
SidebarSync(S) ==
    IF S.rename_session_synced_to # S.active_session_id
    THEN [S EXCEPT !.rename_session_name = S.active_session_id,
                   !.rename_session_synced_to = S.active_session_id]
    ELSE S

\* What every run does before it reaches a handler.
Prologue(S) == SidebarSync(ensure_session_state(S))

\* The history loop clearing the flag of single-answer turns only.
Render_SingleOnly(S) ==
    [S EXCEPT !.sessions[S.history].history =
        [i \in 1..Len(@) |->
            IF @[i].role = "assistant"
            THEN [@[i] EXCEPT !.is_new = FALSE]
            ELSE @[i]]]

\* The history loop at the end of a run: every fresh answer is revealed and its
\* flag cleared, in the list st.session_state.history aliases.
Render(S) ==
    [S EXCEPT !.sessions[S.history].history =
        [i \in 1..Len(@) |->
            IF @[i].role \in {"assistant", "assistant_all"}
            THEN [@[i] EXCEPT !.is_new = FALSE]
            ELSE @[i]]]

\* The state a handler's run leaves: st.rerun() starts a second, complete run;
\* a handler that returns lets the run reach the history loop; st.stop() and an
\* uncaught exception end the run where they happen.
Finish(S, end) ==
    CASE end = "rerun" -> Render(Prologue(S))
      [] end = "done" -> Render(S)
      [] OTHER -> S

\* The same for a run the identity section stops at line 485 when gated: a
\* rerun reaches the sidebar again and no run reaches the history loop.
EndRun(S, end, gated) ==
    IF gated
    THEN IF end = "rerun" THEN Prologue(S) ELSE S
    ELSE Finish(S, end)

\* ------------------------------------------------------- sidebar handlers
\* A session button.
OnSwitch(S, session_name) ==
    IF session_name # S.active_session_id
    THEN [st |-> [S EXCEPT !.active_session_id = session_name,
                           !.session_select = session_name,
                           !.history = session_name,
                           !.rename_session_name = session_name,
                           !.rename_session_synced_to = session_name],
          ok |-> TRUE, end |-> "rerun"]
    ELSE [st |-> S, ok |-> FALSE, end |-> "done"]

\* How a session handler ends on the result r of its function: st.rerun() on
\* success, a message and the rest of the run otherwise.
Ended(r) == [st |-> r.st, ok |-> r.ok, end |-> IF r.ok THEN "rerun" ELSE "done"]

\* The Rename button of a session's menu, for the stripped input.
OnRenameTarget(S, session_name, rename_target) ==
    IF rename_target = <<>> \/ rename_target = session_name
       \/ rename_target \in DOMAIN S.sessions
    THEN [st |-> S, ok |-> FALSE, end |-> "done"]
    ELSE Ended(rename_session(S, session_name, rename_target))

OnRename(S, session_name, rename_value) ==
    OnRenameTarget(S, session_name, Strip(rename_value))

\* The Delete session button, given the result r of delete_session.
OnDeleted(r) ==
    IF r.ok
    THEN [st |-> [r.st EXCEPT !.session_select = r.st.active_session_id,
                              !.rename_session_name = r.st.active_session_id,
                              !.rename_session_synced_to = r.st.active_session_id],
          ok |-> TRUE, end |-> "rerun"]
    ELSE [st |-> r.st, ok |-> FALSE, end |-> "done"]

OnDelete(S, session_name) == OnDeleted(delete_session(S, session_name))

\* The Create session form, given the result r of create_session.
OnCreated(r) ==
    [st |-> r.st, ok |-> r.ok, name |-> r.name, end |-> IF r.ok THEN "rerun" ELSE "done"]

OnCreate(S, new_session_name) == OnCreated(create_session(S, new_session_name))

\* ------------------------------------------------------------ the persona
PersonaChoices == {<<"Charlie">>, <<"Jing">>, <<"Charles">>, <<"Control">>}

\* persona_name in local mode: the custom name when it is not blank.
ResolvePersona(selected, custom) ==
    IF Strip(custom) # <<>> THEN Strip(custom) ELSE selected

\* The identity section stopping the run only when no user is supplied.
Gated_NoSuppliedUser ==
    is_hf_space /\ hf_user_id = <<>> /\ hf_authenticated_user = Absent

\* The identity section (lines 443-524) has stopped the run: a hosted platform
\* and no verified identity in the session state.
Gated == is_hf_space /\ hf_authenticated_user = Absent

\* The persona picker and the name input are drawn (lines 514-524).
LocalMode == ~is_hf_space /\ hf_user_id = <<>>

\* persona_name after the identity section; line 241 while the section stops
\* the run before it assigns.
ResolveIdentity(space, user_id, authenticated, selected, custom) ==
    IF space
    THEN IF authenticated = Absent THEN <<"Charlie">> ELSE authenticated
    ELSE IF user_id # <<>> THEN user_id
    ELSE ResolvePersona(selected, custom)

persona_name ==
    ResolveIdentity(is_hf_space, hf_user_id, hf_authenticated_user,
                    selected_persona, custom_persona)

\* ------------------------------------------------------ the chat handler
\* What chat() can end in: a reply, a ValueError, any other exception.
ChatOutcomes == {"ok", "ValueError", "OtherError"}

\* d[k] = v on an insertion-ordered dict, held as a sequence of <<key, value>>.
DictSet(d, k, v) ==
    IF \E i \in 1..Len(d) : d[i][1] = k
    THEN [i \in 1..Len(d) |-> IF d[i][1] = k THEN <<k, v>> ELSE d[i]]
    ELSE Append(d, <<k, v>>)

\* A turn appended to the first session of the order list.
HistoryAppend_First(S, turn) ==
    [S EXCEPT !.sessions[S.session_order[1]].history = Append(@, turn)]

\* st.session_state.history.append(turn): the aliased list grows.
HistoryAppend(S, turn) == [S EXCEPT !.sessions[S.history].history = Append(@, turn)]

HistoryOf(S) == S.sessions[S.history].history

\* The handler's progress: the state, the calls and requests so far, how it
\* ended ("run" while it has not), the error shown or raised, the rewritten
\* text of the current pass and the answers collected (all_answers).
Ctx(S) == [st |-> S, calls |-> <<>>, requests |-> <<>>, end |-> "run", error |-> "",
           text |-> <<>>, answers |-> <<>>]

AppendCall == [fn |-> "history.append", persona |-> <<>>, msgs |-> <<>>]

\* The handler without the append of the user turn.
StepUserTurn_NoAppend(c, msg) == [c EXCEPT !.calls = Append(@, AppendCall)]

\* Line 737: the raw message becomes a user turn.
StepUserTurn(c, msg) ==
    [c EXCEPT !.st = HistoryAppend(@, [role |-> "user", content |-> msg]),
              !.calls = Append(@, AppendCall)]

\* A rewrite_message call with result rw: its exception leaves the handler.
Rewrote(c, rw) ==
    IF c.end # "run" THEN c
    ELSE [c EXCEPT !.calls = @ \o rw.calls,
                   !.requests = @ \o rw.requests,
                   !.text = rw.ret,
                   !.end = IF rw.raised # "" THEN "raise" ELSE "run",
                   !.error = rw.raised]

\* A chat(msgs, arg) call ending in outcome: a ValueError is shown and the run
\* stopped (st.stop()), any other exception leaves the handler, a reply txt is
\* kept under label.
Chatted(c, msgs, arg, outcome, txt, label) ==
    IF c.end # "run" THEN c
    ELSE [c EXCEPT !.calls = Append(@, [fn |-> "chat", persona |-> arg, msgs |-> msgs]),
                   !.answers = IF outcome = "ok" THEN DictSet(@, label, txt) ELSE @,
                   !.end = CASE outcome = "ok" -> "run"
                             [] outcome = "ValueError" -> "stop"
                             [] OTHER -> "raise",
                   !.error = IF outcome = "ok" THEN "" ELSE outcome]

\* clean_history and append_user_turn for persona, then chat with arg.
StepChat(c, persona, arg, outcome, txt, label) ==
    IF c.end # "run" THEN c
    ELSE Chatted(c, append_user_turn(clean_history(HistoryOf(c.st), persona), c.text),
                 arg, outcome, txt, label)

\* The comparison turn appended with whatever answers were collected, also
\* after a completion failed.
StepAppendAll_Partial(c) ==
    IF c.answers = <<>> THEN c
    ELSE [c EXCEPT !.st = HistoryAppend(@, [role |-> "assistant_all", axis |-> "role",
                                            content |-> c.answers, is_new |-> TRUE]),
                   !.calls = Append(@, AppendCall),
                   !.end = IF @ = "run" THEN "rerun" ELSE @]

\* Lines 762-764: the comparison turn, then st.rerun().
StepAppendAll(c) ==
    IF c.end # "run" THEN c
    ELSE [c EXCEPT !.st = HistoryAppend(@, [role |-> "assistant_all", axis |-> "role",
                                            content |-> c.answers, is_new |-> TRUE]),
                   !.calls = Append(@, AppendCall),
                   !.end = "rerun"]

\* Lines 774-776: the single-answer turn, then st.rerun().
StepAppendAnswer(c, persona) ==
    IF c.end # "run" THEN c
    ELSE [c EXCEPT !.st = HistoryAppend(@, [role |-> "assistant", persona |-> persona,
                                            content |-> c.answers[1][2],
                                            is_new |-> TRUE]),
                   !.calls = Append(@, AppendCall),
                   !.end = "rerun"]

\* The persona argument of the single-answer completion (line 772).
SinglePersonaArg(persona, mem) ==
    IF persona = <<"Control">> \/ ~mem THEN <<"Arnold">> ELSE persona

\* The persona argument of the first completion of comparison mode (line 746).
ComparePersonaArg(persona) == persona

\* The control completion called with the label of its answer.
ControlPersonaArg_Label == <<"Control">>

\* The persona argument of the second completion of comparison mode (line 756).
ControlPersonaArg == <<"Arnold">>

\* Lines 741-764, after the user turn is appended.
CompareBranch(c, msg, persona, show, key, env) ==
    StepAppendAll(
      StepChat(
        Rewrote(
          StepChat(
            Rewrote(c, rewrite_message(msg, persona, show, TRUE, key, env)),
            persona, ComparePersonaArg(persona), env.chat1, env.txt1, persona),
          rewrite_message(msg, <<"Control">>, show, FALSE, key, env)),
        <<"Control">>, ControlPersonaArg, env.chat2, env.txt2, <<"Control">>))

\* Lines 766-779, after the user turn is appended.
SingleBranch(c, msg, persona, show, mem, key, env) ==
    StepAppendAnswer(
      StepChat(
        Rewrote(c, rewrite_message(msg, persona, show, mem, key, env)),
        persona, SinglePersonaArg(persona, mem), env.chat1, env.txt1, persona),
      persona)

\* The chat input handler for a submitted msg. compare is the local
\* compare_personas of the run, mem the memory checkbox.
OnChatInput(S, msg, persona, show, compare, mem, key, env) ==
    IF compare /\ mem
    THEN CompareBranch(StepUserTurn(Ctx(S), msg), msg, persona, show, key, env)
    ELSE SingleBranch(StepUserTurn(Ctx(S), msg), msg, persona, show, mem, key, env)

\* ------------------------------------------------- Clear chat, Delete Profile
\* Lines 572-577: the active session's list is emptied in place.
ClearActive(S) ==
    [S EXCEPT !.sessions[S.active_session_id].history = <<>>,
              !.history = S.active_session_id]

\* The Delete Profile button, given the result r of delete_profile.
OnProfileDeleted(S, persona, r) ==
    IF r.raised # ""
    THEN [st |-> S,
          calls |-> <<[fn |-> "delete_profile", persona |-> persona, msgs |-> <<>>]>>,
          requests |-> r.requests, end |-> "raise", error |-> r.raised,
          success |-> FALSE]
    ELSE [st |-> ClearActive(S),
          calls |-> <<[fn |-> "delete_profile", persona |-> persona, msgs |-> <<>>]>>,
          requests |-> r.requests, end |-> "done", error |-> "", success |-> r.ret]

OnDeleteProfile(S, persona, key, net) ==
    OnProfileDeleted(S, persona, delete_profile(persona, key, net))

\* ------------------------------------------------- identity verification
\* What a verification meets: the client library (not installed, or whoami's
\* answer or exception), the answer of the HTTP request made without it, and
\* the name the identity provider knows the token by.
LibOutcomes == {"missing", "name", "noname", "401", "timeout", "error"}
HttpOutcomes == {"200", "200noname", "401", "403", "500", "timeout", "conn_error",
                 "error"}

\* str(e) of the exception whoami raised.
LibMessage(lib) ==
    CASE lib = "401" -> <<"401", " Client Error: ", "Unauthorized", " for url">>
      [] lib = "timeout" -> <<"Read timed out.">>
      [] OTHER -> <<"boom">>

\* Line 387.
IsInvalidSignal(error_msg) ==
    InSeq("401", error_msg) \/ InSeq("Unauthorized", error_msg)
        \/ InSeq("Invalid", error_msg)

\* Line 373: "".join(token.split()).
Compact(token) == SelectSeq(token, LAMBDA t : ~IsSpace(t))

VerifyCall(fn) == [fn |-> fn, persona |-> <<>>, msgs |-> <<>>]

\* (is_valid, username, error_message), the message by its class, and the
\* verification calls made.
Verdict(ok, username, error, made) ==
    [ok |-> ok, username |-> username, error |-> error, calls |-> made]

\* Lines 394-441: the direct request to the whoami endpoint.
ValidateHttp(token, env) ==
    CASE env.http = "200" ->
            Verdict(TRUE, env.name, "", <<VerifyCall("requests.get")>>)
      [] env.http = "200noname" ->
            Verdict(FALSE, <<>>, "no_username", <<VerifyCall("requests.get")>>)
      [] env.http = "401" ->
            Verdict(FALSE, <<>>, "invalid_token", <<VerifyCall("requests.get")>>)
      [] env.http = "403" ->
            Verdict(FALSE, <<>>, "access_denied", <<VerifyCall("requests.get")>>)
      [] env.http = "500" ->
            Verdict(FALSE, <<>>, "auth_failed", <<VerifyCall("requests.get")>>)
      [] env.http = "timeout" ->
            Verdict(FALSE, <<>>, "timeout", <<VerifyCall("requests.get")>>)
      [] env.http = "conn_error" ->
            Verdict(FALSE, <<>>, "network_error", <<VerifyCall("requests.get")>>)
      [] OTHER ->
            Verdict(FALSE, <<>>, "validation_error", <<VerifyCall("requests.get")>>)

\* Lines 376-392: the client library first, the request without it.
ValidateLibrary(token, env) ==
    CASE env.lib = "missing" -> ValidateHttp(token, env)
      [] env.lib = "name" -> Verdict(TRUE, env.name, "", <<VerifyCall("whoami")>>)
      [] env.lib = "noname" ->
            Verdict(FALSE, <<>>, "no_username", <<VerifyCall("whoami")>>)
      [] OTHER ->
            IF IsInvalidSignal(LibMessage(env.lib))
            THEN Verdict(FALSE, <<>>, "invalid_token", <<VerifyCall("whoami")>>)
            ELSE Verdict(FALSE, <<>>, "validation_error", <<VerifyCall("whoami")>>)

\* validate_hf_token without its test for an empty token.
validate_hf_token_Unchecked(token, env) ==
    ValidateLibrary(Compact(Strip(token)), env)

validate_hf_token(token, env) ==
    IF Strip(token) = <<>>
    THEN Verdict(FALSE, <<>>, "empty_token", <<>>)
    ELSE ValidateLibrary(Compact(Strip(token)), env)

\* Lines 461-481, given the verdict v on the stripped token.
OnVerified(token, v) ==
    IF v.ok /\ v.username # <<>>
    THEN [user |-> v.username, token |-> token, ok |-> TRUE, end |-> "rerun",
          error |-> "", calls |-> v.calls]
    ELSE [user |-> Absent, token |-> Absent, ok |-> FALSE, end |-> "stop",
          error |-> IF v.error # "" THEN v.error ELSE "invalid_token",
          calls |-> v.calls]

\* The Authenticate button.
OnAuthenticate(token_input, env) ==
    IF Strip(token_input) # <<>>
    THEN OnVerified(Strip(token_input), validate_hf_token(Strip(token_input), env))
    ELSE [user |-> Absent, token |-> Absent, ok |-> FALSE, end |-> "stop",
          error |-> "enter_token", calls |-> <<>>]

\* The Sign Out button forgetting the identity only.
OnSignOut_KeepToken(user, token) == [user |-> Absent, token |-> token, end |-> "rerun"]

\* The Sign Out button.
OnSignOut(user, token) == [user |-> Absent, token |-> Absent, end |-> "rerun"]

\* ------------------------------------------------------- memory import
\* The import part of st.session_state as one value.
IM == [memories_preview |-> memories_preview,
       imported_memories_text |-> imported_memories_text]

\* Lines 645-673: the text of the text area, or of the uploaded file.
LoadedText(typed, uploaded) == IF uploaded # <<>> THEN uploaded ELSE typed
Loaded(I, uploaded) ==
    IF uploaded # <<>> THEN [I EXCEPT !.imported_memories_text = uploaded] ELSE I

\* An import handler's run: the import state, the call and requests it made.
Imported(I, made, sent, ok, end, error) ==
    [im |-> I, calls |-> made, requests |-> sent, ok |-> ok, end |-> end,
     error |-> error]

\* Any persona may import.
ImportAllowed_Any(persona) == TRUE

\* Lines 689 and 716.
ImportAllowed(persona) == persona # <<>> /\ persona # <<"Control">>

\* The Preview button.
OnPreview(I, imported_text) ==
    IF Strip(imported_text) # <<>>
    THEN Imported([I EXCEPT !.memories_preview = imported_text,
                            !.imported_memories_text = imported_text],
                  <<>>, <<>>, TRUE, "rerun", "")
    ELSE Imported(I, <<>>, <<>>, FALSE, "done", "paste_first")

\* Lines 690-696 and 717-722, given the result r of ingest_memories.
Ingested(I, persona, r) ==
    Imported(I, <<[fn |-> "ingest_memories", persona |-> persona, msgs |-> <<>>]>>,
             r.requests, r.ret, "rerun", IF r.ret THEN "" ELSE "ingest_failed")

\* The Ingest button next to Preview.
OnIngestDirect(I, imported_text, persona, key, net) ==
    IF Strip(imported_text) = <<>>
    THEN Imported(I, <<>>, <<>>, FALSE, "done", "paste_first")
    ELSE IF ~ImportAllowed(persona)
    THEN Imported(I, <<>>, <<>>, FALSE, "rerun", "select_persona")
    ELSE IF ingest_memories(persona, imported_text, key, net).ret
    THEN Ingested([I EXCEPT !.imported_memories_text = imported_text], persona,
                  ingest_memories(persona, imported_text, key, net))
    ELSE Ingested(I, persona, ingest_memories(persona, imported_text, key, net))

\* The Ingest button of the preview.
OnIngestPreview(I, persona, key, net) ==
    IF ~ImportAllowed(persona)
    THEN Imported(I, <<>>, <<>>, FALSE, "rerun", "select_persona")
    ELSE Ingested(I, persona, ingest_memories(persona, I.memories_preview, key, net))

\* The Clear button of the preview.
OnClearPreview(I) ==
    Imported([I EXCEPT !.memories_preview = <<>>, !.imported_memories_text = <<>>],
             <<>>, <<>>, TRUE, "rerun", "")

\* ----------------------------------------------------------------- inputs
\* What a user types as a session name (create form, rename input).
NameInputs == {<<>>, <<" ">>, <<"a">>, <<" ", "a", " ">>,
               <<"Session", " ", "1">>, <<"Session", " ", "2">>}
\* What a user types as a chat message.
Msgs == {<<"m1">>, <<"m2">>}
\* The options of the persona selectbox the model's user picks.
PickedPersonas == {<<"Charlie">>, <<"Control">>}
\* What a user types into "Or enter your name".
CustomInputs == {<<>>, <<" ">>, <<" ", "control">>}
\* The replies of chat() and the bodies of the search response.
Answers == {<<"reply">>}
Bodies == {<<"ctx">>}
\* The personas the gateway functions are called with.
GatewayPersonas == PersonaChoices \cup {<<"Zed">>}
KeyChoices == {<<>>, <<"secret">>}
\* What a user types as an access token, and the names of the accounts.
TokenInputs == {<<>>, <<" ">>, <<" ", "hf_", " ", "x">>}
Usernames == {<<"alice">>}
SuppliedUsers == {<<>>, <<"bob">>}
\* The verifications: the request is made only without the client library.
AuthEnvs ==
    {e \in [lib : LibOutcomes, http : HttpOutcomes, name : Usernames] :
        e.lib # "missing" => e.http = "200"}
\* What a user pastes into the import text area, and the files they upload.
ImportTexts == {<<>>, <<" ">>, <<"mem">>}
Uploads == {<<>>, <<"file">>}

\* The outcomes of the calls of one submission. An outcome that no call reads
\* (the call is not reached) is left at "ok".
ChatEnvs ==
    {e \in [post : NetOutcomes, search : NetOutcomes, body : Bodies,
            chat1 : ChatOutcomes, txt1 : Answers,
            chat2 : ChatOutcomes, txt2 : Answers] :
        /\ IsRequestException(e.post) => e.search = "ok"
        /\ e.search # "ok" => e.chat1 = "ok"
        /\ e.chat1 # "ok" => e.chat2 = "ok"}

RECURSIVE SumLen(_, _)
SumLen(f, keys) ==
    IF keys = {} THEN 0
    ELSE LET k == CHOOSE x \in keys : TRUE
         IN  Len(f[k].history) + SumLen(f, keys \ {k})

TotalTurns == SumLen(sessions, DOMAIN sessions)

\* What the model keeps of the last interaction: its handler, the session name,
\* message or network outcome it was about, whether it succeeded, how its run
\* ended and the error shown or raised.
Note(op, arg, ok, end, error) ==
    [op |-> op, arg |-> arg, ok |-> ok, end |-> end, error |-> error]

\* ------------------------------------------------------------------- Init
InitSS(S) ==
    /\ sessions = S.sessions
    /\ session_order = S.session_order
    /\ active_session_id = S.active_session_id
    /\ session_select = S.session_select
    /\ history = S.history
    /\ rename_session_name = S.rename_session_name
    /\ rename_session_synced_to = S.rename_session_synced_to

\* The state after the first run of the script in a new browser session, for
\* the environments the process can be started in.
InitEnv(keys, spaces, users) ==
    /\ is_hf_space \in spaces
    /\ hf_user_id \in users
    /\ hf_authenticated_user = Absent
    /\ hf_token = Absent
    /\ memories_preview = <<>>
    /\ imported_memories_text = <<>>
    /\ InitSS(EndRun(EmptyState, "rerun", is_hf_space))
    /\ memmachine_enabled = TRUE
    /\ compare_personas = TRUE
    /\ show_rationale = FALSE
    /\ selected_persona = <<"Charlie">>
    /\ custom_persona = <<>>
    /\ BACKEND_API_KEY \in keys
    /\ calls = <<>>
    /\ requests = <<>>
    /\ last = Note("start", <<>>, TRUE, "done", "")

\* The same on a developer's machine: no hosted platform, no supplied user.
InitApp(keys) ==
    /\ is_hf_space = FALSE
    /\ hf_user_id = <<>>
    /\ hf_authenticated_user = Absent
    /\ hf_token = Absent
    /\ memories_preview = <<>>
    /\ imported_memories_text = <<>>
    /\ InitSS(Finish(EmptyState, "rerun"))
    /\ memmachine_enabled = TRUE
    /\ compare_personas = TRUE
    /\ show_rationale = FALSE
    /\ selected_persona = <<"Charlie">>
    /\ custom_persona = <<>>
    /\ BACKEND_API_KEY \in keys
    /\ calls = <<>>
    /\ requests = <<>>
    /\ last = Note("start", <<>>, TRUE, "done", "")

\* ---------------------------------------------------------------- actions
\* The run of a sidebar handler that ended as r tells.
SessionStep(r, op, arg) ==
    /\ SetSS(EndRun(r.st, r.end, Gated))
    /\ last' = Note(op, arg, r.ok, IF Gated /\ r.end = "done" THEN "stop" ELSE r.end, "")
    /\ calls' = <<>>
    /\ requests' = <<>>
    /\ UNCHANGED <<toggleVars, personaVars, BACKEND_API_KEY, envVars, authVars,
                   importVars>>

\* The run of a handler that called out and ended as r tells.
CallStep(r, op, arg, ok) ==
    /\ SetSS(Finish(r.st, r.end))
    /\ last' = Note(op, arg, ok, r.end, r.error)
    /\ calls' = r.calls
    /\ requests' = r.requests
    /\ UNCHANGED <<toggleVars, personaVars, BACKEND_API_KEY, envVars, authVars,
                   importVars>>

CreateSession ==
    /\ Len(session_order) < MaxSessions
    /\ \E raw \in NameInputs :
        SessionStep(OnCreate(Prologue(SS), raw), "create_session",
                    OnCreate(Prologue(SS), raw).name)

RenameSession ==
    \E i \in 1..Len(session_order), raw \in NameInputs :
        SessionStep(OnRename(Prologue(SS), session_order[i], raw),
                    "rename_session", session_order[i])

DeleteSession ==
    \E i \in 1..Len(session_order) :
        SessionStep(OnDelete(Prologue(SS), session_order[i]),
                    "delete_session", session_order[i])

SwitchSession ==
    \E i \in 1..Len(session_order) :
        SessionStep(OnSwitch(Prologue(SS), session_order[i]),
                    "switch", session_order[i])

\* The compare_personas of a run (lines 539-567): off while memory is off.
CompareLocal == IF memmachine_enabled THEN compare_personas ELSE FALSE

SubmitEnded(r, msg) == CallStep(r, "chat_input", msg, r.end = "rerun")

Submit ==
    /\ ~Gated
    /\ TotalTurns < MaxTurns
    /\ \E msg \in Msgs, env \in ChatEnvs :
        SubmitEnded(OnChatInput(Prologue(SS), msg, persona_name, show_rationale,
                                CompareLocal, memmachine_enabled, BACKEND_API_KEY, env),
                    msg)

ClearChat ==
    /\ ~Gated
    /\ SetSS(Finish(ClearActive(Prologue(SS)), "rerun"))
    /\ last' = Note("clear_chat", <<>>, TRUE, "rerun", "")
    /\ calls' = <<>>
    /\ requests' = <<>>
    /\ UNCHANGED <<toggleVars, personaVars, BACKEND_API_KEY, envVars, authVars,
                   importVars>>

ProfileEnded(r, net) == CallStep(r, "delete_profile", <<net>>, r.success)

DeleteProfile ==
    /\ ~Gated
    /\ \E net \in NetOutcomes :
        ProfileEnded(OnDeleteProfile(Prologue(SS), persona_name, BACKEND_API_KEY, net),
                     net)

\* A widget of the sidebar changes: the run has no handler and renders.
Rerun(op) ==
    /\ ~Gated
    /\ SetSS(Finish(Prologue(SS), "done"))
    /\ last' = Note(op, <<>>, TRUE, "done", "")
    /\ calls' = <<>>
    /\ requests' = <<>>
    /\ UNCHANGED <<BACKEND_API_KEY, envVars, authVars, importVars>>

SelectPersona ==
    /\ LocalMode
    /\ \E p \in PickedPersonas \ {selected_persona} : selected_persona' = p
    /\ Rerun("select_persona")
    /\ UNCHANGED <<toggleVars, custom_persona>>

TypeCustomPersona ==
    /\ LocalMode
    /\ \E c \in CustomInputs \ {custom_persona} : custom_persona' = c
    /\ Rerun("custom_persona")
    /\ UNCHANGED <<toggleVars, selected_persona>>

ToggleMemory ==
    /\ memmachine_enabled' = ~memmachine_enabled
    /\ Rerun("toggle_memory")
    /\ UNCHANGED <<compare_personas, show_rationale, personaVars>>

\* The comparison checkbox is drawn only while memory is enabled.
ToggleCompare ==
    /\ memmachine_enabled
    /\ compare_personas' = ~compare_personas
    /\ Rerun("toggle_compare")
    /\ UNCHANGED <<memmachine_enabled, show_rationale, personaVars>>

ToggleRationale ==
    /\ show_rationale' = ~show_rationale
    /\ Rerun("toggle_rationale")
    /\ UNCHANGED <<memmachine_enabled, compare_personas, personaVars>>

\* ---------------------------------------------- identity, import: actions
\* The run of the Authenticate button that ended as r tells.
Authenticated(r, token_input) ==
    /\ hf_authenticated_user' = IF r.ok THEN r.user ELSE hf_authenticated_user
    /\ hf_token' = IF r.ok THEN r.token ELSE hf_token
    /\ SetSS(EndRun(Prologue(SS), r.end, ~r.ok))
    /\ last' = Note("authenticate", token_input, r.ok, r.end, r.error)
    /\ calls' = r.calls
    /\ requests' = <<>>
    /\ UNCHANGED <<toggleVars, personaVars, BACKEND_API_KEY, envVars, importVars>>

Authenticate ==
    /\ Gated
    /\ \E token_input \in TokenInputs, env \in AuthEnvs :
        Authenticated(OnAuthenticate(token_input, env), token_input)

SignedOut(r) ==
    /\ hf_authenticated_user' = r.user
    /\ hf_token' = r.token
    /\ SetSS(EndRun(Prologue(SS), r.end, is_hf_space /\ r.user = Absent))
    /\ last' = Note("sign_out", <<>>, TRUE, r.end, "")
    /\ calls' = <<>>
    /\ requests' = <<>>
    /\ UNCHANGED <<toggleVars, personaVars, BACKEND_API_KEY, envVars, importVars>>

SignOut ==
    /\ is_hf_space
    /\ hf_authenticated_user # Absent
    /\ SignedOut(OnSignOut(hf_authenticated_user, hf_token))

\* The run of an import handler that ended as r tells.
ImportStep(r, op, arg) ==
    /\ memories_preview' = r.im.memories_preview
    /\ imported_memories_text' = r.im.imported_memories_text
    /\ SetSS(Finish(Prologue(SS), r.end))
    /\ last' = Note(op, arg, r.ok, r.end, r.error)
    /\ calls' = r.calls
    /\ requests' = r.requests
    /\ UNCHANGED <<toggleVars, personaVars, BACKEND_API_KEY, envVars, authVars>>

Preview ==
    /\ ~Gated
    /\ \E typed \in ImportTexts, uploaded \in Uploads :
        ImportStep(OnPreview(Loaded(IM, uploaded), LoadedText(typed, uploaded)),
                   "preview", LoadedText(typed, uploaded))

IngestDirect ==
    /\ ~Gated
    /\ \E typed \in ImportTexts, uploaded \in Uploads, net \in NetOutcomes :
        ImportStep(OnIngestDirect(Loaded(IM, uploaded), LoadedText(typed, uploaded),
                                  persona_name, BACKEND_API_KEY, net),
                   "ingest_direct", LoadedText(typed, uploaded))

\* The preview's buttons are drawn only while a preview is stored (line 704).
IngestFromPreview ==
    /\ ~Gated
    /\ memories_preview # <<>>
    /\ \E net \in NetOutcomes :
        ImportStep(OnIngestPreview(IM, persona_name, BACKEND_API_KEY, net),
                   "ingest_preview", memories_preview)

ClearPreview ==
    /\ ~Gated
    /\ memories_preview # <<>>
    /\ ImportStep(OnClearPreview(IM), "clear_preview", <<>>)

\* ---------------------------------------------- the gateway client, called
\* A direct call of a gateway function that ended as r tells.
GatewayStep(fn, user_id, r, ret) ==
    /\ calls' = <<[fn |-> fn, persona |-> user_id, msgs |-> <<>>]>>
    /\ requests' = r.requests
    /\ last' = Note(fn, ret, r.raised = "",
                    IF r.raised = "" THEN "done" ELSE "raise", r.raised)
    /\ UNCHANGED <<sessVars, toggleVars, personaVars, BACKEND_API_KEY, envVars,
                   authVars, importVars>>

BoolStr(b) == IF b THEN <<"True">> ELSE <<"False">>

CallGetMemories ==
    \E p \in GatewayPersonas, net \in NetOutcomes :
        GatewayStep("get_memories", p, get_memories(p, BACKEND_API_KEY, net),
                    <<get_memories(p, BACKEND_API_KEY, net).ret>>)

CallIngestMemories ==
    \E p \in GatewayPersonas, text \in Msgs, net \in NetOutcomes :
        GatewayStep("ingest_memories", p, ingest_memories(p, text, BACKEND_API_KEY, net),
                    BoolStr(ingest_memories(p, text, BACKEND_API_KEY, net).ret))

CallDeleteProfile ==
    \E p \in GatewayPersonas, net \in NetOutcomes :
        GatewayStep("delete_profile", p, delete_profile(p, BACKEND_API_KEY, net),
                    BoolStr(delete_profile(p, BACKEND_API_KEY, net).ret))

CallIngestAndRewrite ==
    \E p \in GatewayPersonas, q \in Msgs, post \in NetOutcomes, search \in NetOutcomes,
       body \in Bodies :
        GatewayStep("ingest_and_rewrite", p,
                    ingest_and_rewrite(p, q, BACKEND_API_KEY, post, search, body),
                    ingest_and_rewrite(p, q, BACKEND_API_KEY, post, search, body).ret)

\* --------------------------------------------------------- specifications
\* The session registry: create, rename, delete, switch, with histories.
InitSessions == InitApp({<<>>})
SubmitFew == TotalTurns < MaxSessionTurns /\ Submit
NextSessions ==
    \/ CreateSession
    \/ RenameSession
    \/ DeleteSession
    \/ SwitchSession
    \/ SubmitFew
    \/ ClearChat
    \/ DeleteProfile
SpecSessions == InitSessions /\ [][NextSessions]_vars

\* The conversation of one session: persona, toggles, submissions.
InitChat == InitApp({<<"secret">>})
NextChat ==
    \/ SelectPersona
    \/ TypeCustomPersona
    \/ ToggleMemory
    \/ ToggleCompare
    \/ ToggleRationale
    \/ Submit
    \/ ClearChat
    \/ DeleteProfile
SpecChat == InitChat /\ [][NextChat]_vars

\* Identity and import: every environment the process starts in, verification,
\* sign-out, the sidebar, one conversation and the import buttons.
InitIdentity == InitEnv({<<"secret">>}, BOOLEAN, SuppliedUsers)
SubmitOnce == TotalTurns < MaxIdentityTurns /\ Submit
CreateOne == Len(session_order) < MaxIdentitySessions /\ CreateSession
NextIdentity ==
    \/ Authenticate
    \/ SignOut
    \/ SelectPersona
    \/ CreateOne
    \/ SwitchSession
    \/ SubmitOnce
    \/ Preview
    \/ IngestDirect
    \/ IngestFromPreview
    \/ ClearPreview
SpecIdentity == InitIdentity /\ [][NextIdentity]_vars

\* The gateway client's functions, each called with any persona and outcome.
InitGateway == InitApp(KeyChoices)
NextGateway ==
    \/ CallGetMemories
    \/ CallIngestMemories
    \/ CallDeleteProfile
    \/ CallIngestAndRewrite
SpecGateway == InitGateway /\ [][NextGateway]_vars

\* ============================================================= properties
NoDup(s) == \A i, j \in 1..Len(s) : i # j => s[i] # s[j]
Names(s) == {s[i] : i \in 1..Len(s)}
ActiveHistory == sessions[active_session_id].history
ChatCalls == {i \in 1..Len(calls) : calls[i].fn = "chat"}
\* The names a session can be given by the model's user.
TypedNames == {Strip(raw) : raw \in NameInputs} \ {<<>>}
\* The personas a history is cleaned for.
CleanPersonas == PersonaChoices \cup {<<"control">>, <<"Arnold">>, <<"Zed">>}

\* C1: no session name occurs twice (the order list has no duplicates and the
\* registry holds exactly the names of the order list), and create_session
\* with a name that, once stripped, is a session returns (False, name) and
\* leaves the registry and the order list unchanged.
C1_SessionNamesUnique ==
    /\ NoDup(session_order)
    /\ Names(session_order) = DOMAIN sessions
    /\ \A raw \in NameInputs :
          Strip(raw) \in DOMAIN sessions =>
              /\ ~create_session(SS, raw).ok
              /\ create_session(SS, raw).name = Strip(raw)
              /\ create_session(SS, raw).st.sessions = sessions
              /\ create_session(SS, raw).st.session_order = session_order

\* C1's case: a create with the name of a session was just rejected.
C1_Witness ==
    /\ last.op = "create_session"
    /\ ~last.ok
    /\ last.arg \in DOMAIN sessions
    /\ Len(session_order) >= 2

\* C2: delete_session never succeeds from an order list of one entry, and a
\* successful delete, of the function and of the sidebar handler's run, leaves
\* a non-empty order list and an active session that is in it and in the
\* registry.
C2_DeleteKeepsASession ==
    /\ [](\A n \in DOMAIN sessions \cup TypedNames :
            /\ Len(session_order) = 1 => ~delete_session(SS, n).ok
            /\ delete_session(SS, n).ok =>
                  /\ delete_session(SS, n).st.session_order # <<>>
                  /\ InSeq(delete_session(SS, n).st.active_session_id,
                           delete_session(SS, n).st.session_order)
                  /\ delete_session(SS, n).st.active_session_id
                         \in DOMAIN delete_session(SS, n).st.sessions)
    /\ [][(last'.op = "delete_session" /\ last'.ok) =>
              /\ Len(session_order) > 1
              /\ session_order' # <<>>
              /\ InSeq(active_session_id', session_order')
              /\ active_session_id' \in DOMAIN sessions']_vars

\* C2's case: a delete just succeeded and left a single session.
C2_Witness ==
    /\ last.op = "delete_session"
    /\ last.ok
    /\ last.arg \notin DOMAIN sessions
    /\ Len(session_order) = 1

\* C3: a submission appends the raw text as a user turn before any other call,
\* and when the rewrite or a completion fails the history is the one before
\* the submission plus that user turn, with no answer turn.
C3_UserTurnKept ==
    [][last'.op = "chat_input" =>
          /\ calls'[1] = AppendCall
          /\ last'.end # "rerun" =>
                sessions' = [sessions EXCEPT ![active_session_id].history =
                                Append(@, [role |-> "user", content |-> last'.arg])]]_vars

\* C3's case: in comparison mode the first completion succeeded and the
\* second, control completion failed.
C3_Witness ==
    /\ last.op = "chat_input"
    /\ last.end # "rerun"
    /\ Cardinality(ChatCalls) = 2
    /\ ActiveHistory[Len(ActiveHistory)] = [role |-> "user", content |-> last.arg]

Alternates(msgs) ==
    /\ \A i \in 1..(Len(msgs) - 1) : msgs[i].role # msgs[i + 1].role
    /\ msgs # <<>> => msgs[1].role = "user"

C5_ControlBypassesMemory ==
    (last.op = "chat_input" /\ (persona_name = <<"Control">> \/ ~memmachine_enabled)) =>
        /\ \A i \in 1..Len(calls) : calls[i].fn # "ingest_and_rewrite"
        /\ requests = <<>>
        /\ \A i \in ChatCalls :
              calls[i].msgs[Len(calls[i].msgs)] =
                  [role |-> "user",
                   content |-> IF show_rationale THEN last.arg \o RationaleNone
                               ELSE last.arg]

\* C5's case: Control was submitted with memory and the rationale toggle on.
C5_Witness ==
    /\ last.op = "chat_input"
    /\ persona_name = <<"Control">>
    /\ memmachine_enabled
    /\ show_rationale
    /\ ChatCalls # {}

\* C6: a comparison submission for a persona other than "Control" whose two
\* completions succeed appends a comparison turn of exactly two entries, keyed
\* by the persona and by "Control" in that order; the first completion is
\* called with the persona and the second with "Arnold".
C6_ComparisonTurnShape ==
    (last.op = "chat_input" /\ last.ok /\ CompareLocal /\ persona_name # <<"Control">>) =>
        /\ ActiveHistory[Len(ActiveHistory)].role = "assistant_all"
        /\ Len(ActiveHistory[Len(ActiveHistory)].content) = 2
        /\ ActiveHistory[Len(ActiveHistory)].content[1][1] = persona_name
        /\ ActiveHistory[Len(ActiveHistory)].content[2][1] = <<"Control">>
        /\ Cardinality(ChatCalls) = 2
        /\ \A i, j \in ChatCalls :
              i < j => calls[i].persona = persona_name /\ calls[j].persona = <<"Arnold">>

\* C6's case: a comparison turn was appended for a typed persona.
C6_Witness ==
    /\ last.op = "chat_input"
    /\ last.ok
    /\ CompareLocal
    /\ persona_name = <<"control">>
    /\ ActiveHistory[Len(ActiveHistory)].role = "assistant_all"

\* C7: no completion is called with persona argument "Control", and every
\* completion of a submission for the Control persona or with memory off is
\* called with "Arnold".
C7_NoControlCompletion ==
    \A i \in ChatCalls :
        /\ calls[i].persona # <<"Control">>
        /\ (persona_name = <<"Control">> \/ ~memmachine_enabled) =>
              calls[i].persona = <<"Arnold">>

\* C8: after Delete Profile the active session's history is empty, whatever
\* the DELETE request ended in.
C8_DeleteProfileEmptiesHistory ==
    last.op = "delete_profile" => ActiveHistory = <<>>

\* C9: get_memories, ingest_memories and delete_profile raise nothing to their
\* caller, whatever their request ended in.
C9_GatewayNeverRaises ==
    last.op \in {"get_memories", "ingest_memories", "delete_profile"} =>
        last.end # "raise"

\* C10: for a session A and a free name B, rename_session(A, B) followed by
\* rename_session(B, A) succeed and restore the registry (its keys and every
\* history), the order list, the active session and the history view.
C10_RenameRoundTrip ==
    \A A \in DOMAIN sessions, B \in (TypedNames \cup {<<"b">>}) \ DOMAIN sessions :
        /\ rename_session(SS, A, B).ok
        /\ rename_session(rename_session(SS, A, B).st, B, A).ok
        /\ rename_session(rename_session(SS, A, B).st, B, A).st.sessions = sessions
        /\ rename_session(rename_session(SS, A, B).st, B, A).st.session_order
               = session_order
        /\ rename_session(rename_session(SS, A, B).st, B, A).st.active_session_id
               = active_session_id
        /\ rename_session(rename_session(SS, A, B).st, B, A).st.history = history

\* C10's case: a session that is not the last of three, is active and has a
\* history was just renamed.
C10_Witness ==
    /\ last.op = "rename_session"
    /\ last.ok
    /\ Len(session_order) = 3
    /\ session_order[1] = active_session_id
    /\ ActiveHistory # <<>>

\* C11: the history view is the active session's history, and a submission,
\* Clear chat and Delete Profile change the history of the active session only:
\* the other sessions, the registry's names, the order list and the active
\* session stay as they were.
C11_HistoryIsActive ==
    /\ [](history = active_session_id /\ active_session_id \in DOMAIN sessions)
    /\ [][last'.op \in {"chat_input", "clear_chat", "delete_profile"} =>
              /\ DOMAIN sessions' = DOMAIN sessions
              /\ \A n \in DOMAIN sessions \ {active_session_id} :
                    sessions'[n] = sessions[n]
              /\ session_order' = session_order
              /\ active_session_id' = active_session_id
              /\ history' = active_session_id]_vars

\* C11's case: a message was submitted in a session that is not the first,
\* while another session holds a history.
C11_Witness ==
    /\ last.op = "chat_input"
    /\ session_order[1] # active_session_id
    /\ sessions[session_order[1]].history # <<>>
    /\ ActiveHistory # <<>>

Unverified == is_hf_space /\ hf_authenticated_user = Absent
Histories(f) == {f[n].history : n \in DOMAIN f}
SidebarOps == {"create_session", "rename_session", "delete_session", "switch"}
SurfaceOps == {"chat_input", "clear_chat", "delete_profile", "preview",
               "ingest_direct", "ingest_preview", "clear_preview",
               "select_persona", "custom_persona", "toggle_memory",
               "toggle_compare", "toggle_rationale"}

\* C12: on a hosted platform with no verified identity stored, an interaction
\* is a sidebar operation or a verification: no submission, no call but the
\* verification's, no request to the memory service, every history as it was
\* (or dropped with its session); a failed verification stores no identity.
C12_GatedWhileUnverified ==
    [][Unverified =>
          /\ last'.op \in SidebarOps \cup {"authenticate"}
          /\ \A i \in 1..Len(calls') : calls'[i].fn \in {"whoami", "requests.get"}
          /\ requests' = <<>>
          /\ Histories(sessions') \subseteq Histories(sessions) \cup {<<>>}
          /\ (last'.op = "authenticate" /\ ~last'.ok) =>
                (hf_authenticated_user' = Absent /\ hf_token' = Absent)]_vars

\* C12's case: a verification failed at the identity provider while a session
\* holds a history.
C12_Witness ==
    /\ Unverified
    /\ last.op = "authenticate"
    /\ ~last.ok
    /\ calls # <<>>
    /\ \E n \in DOMAIN sessions : sessions[n].history # <<>>

\* C13: on a hosted platform with a supplied username, the username is the
\* persona and no token is demanded; a token is demanded only when no username
\* is supplied.
C13_SuppliedUserNeedsNoToken ==
    (is_hf_space /\ hf_user_id # <<>>) => (~Gated /\ persona_name = hf_user_id)

\* C14: while a verified identity is stored on a hosted platform, the persona
\* is the verified username whatever the picker and the name input hold, and
\* every memory call is made for it; the identity changes only by a successful
\* verification and by sign-out, which removes the identity and the token;
\* with no identity stored no token is stored and no interaction reaches the
\* chat surface.
C14_VerifiedPersonaLocked ==
    /\ []((is_hf_space /\ hf_authenticated_user # Absent) =>
            /\ \A sel \in PersonaChoices, cust \in CustomInputs :
                  ResolveIdentity(is_hf_space, hf_user_id, hf_authenticated_user,
                                  sel, cust) = hf_authenticated_user
            /\ \A i \in 1..Len(calls) :
                  calls[i].fn \in {"ingest_and_rewrite", "ingest_memories",
                                   "delete_profile"}
                      => calls[i].persona = hf_authenticated_user)
    /\ []((is_hf_space /\ hf_authenticated_user = Absent) => hf_token = Absent)
    /\ [][hf_authenticated_user' # hf_authenticated_user =>
              \/ /\ hf_authenticated_user = Absent
                 /\ last'.op = "authenticate"
                 /\ last'.ok
              \/ /\ last'.op = "sign_out"
                 /\ hf_authenticated_user' = Absent
                 /\ hf_token' = Absent]_vars
    /\ [][(is_hf_space /\ hf_authenticated_user = Absent) =>
              last'.op \notin SurfaceOps]_vars

\* C14's case: a verified user talked and signed out.
C14_Witness ==
    /\ last.op = "sign_out"
    /\ hf_authenticated_user = Absent
    /\ \E n \in DOMAIN sessions :
          /\ Len(sessions[n].history) = 2
          /\ sessions[n].history[2].role = "assistant_all"
          /\ sessions[n].history[2].content[1][1] \in Usernames

\* C15: validate_hf_token of a token that is empty once stripped returns the
\* empty-token failure and makes no verification call, and an Authenticate
\* with such a token makes no call and stores no identity.
C15_EmptyTokenRejected ==
    /\ \A t \in TokenInputs, env \in AuthEnvs :
          Strip(t) = <<>> =>
              validate_hf_token(t, env) = Verdict(FALSE, <<>>, "empty_token", <<>>)
    /\ (last.op = "authenticate" /\ Strip(last.arg) = <<>>) =>
          /\ ~last.ok
          /\ calls = <<>>
          /\ hf_authenticated_user = Absent
          /\ hf_token = Absent

\* C15's case: Authenticate was pressed with a token of spaces.
C15_Witness ==
    /\ last.op = "authenticate"
    /\ last.arg = <<" ">>
    /\ last.error = "enter_token"

\* C16: whatever the verification of the submitted token meets, on the library
\* path and on the HTTP path, a 401 answer is classified as an invalid token
\* and a timeout as a timeout.
C16_FailureClassByCause ==
    (last.op = "authenticate" /\ Strip(last.arg) # <<>>) =>
        \A env \in AuthEnvs :
            /\ (env.lib = "401" \/ (env.lib = "missing" /\ env.http = "401")) =>
                  validate_hf_token(last.arg, env).error = "invalid_token"
            /\ (env.lib = "timeout" \/ (env.lib = "missing" /\ env.http = "timeout")) =>
                  validate_hf_token(last.arg, env).error = "timeout"

GatewayFns == {"ingest_and_rewrite", "get_memories", "ingest_memories",
               "delete_profile"}

\* C17: every request of a gateway call for persona P has user-id, group-id
\* and session-id P and agent-id "agent", and has the x-api-key header, with
\* the configured value, exactly when a key is configured.
C17_RequestHeaders ==
    \A i \in 1..Len(requests), j \in 1..Len(calls) :
        calls[j].fn \in GatewayFns =>
            /\ \A h \in {"user-id", "group-id", "session-id"} :
                  requests[i].headers[h] = calls[j].persona
            /\ requests[i].headers["agent-id"] = <<"agent">>
            /\ BACKEND_API_KEY # <<>> =>
                  /\ "x-api-key" \in DOMAIN requests[i].headers
                  /\ requests[i].headers["x-api-key"] = BACKEND_API_KEY
            /\ BACKEND_API_KEY = <<>> =>
                  "x-api-key" \notin DOMAIN requests[i].headers

\* C17's case: ingest_and_rewrite sent its two requests with a key configured.
C17_Witness ==
    /\ last.op = "ingest_and_rewrite"
    /\ Len(requests) = 2
    /\ BACKEND_API_KEY # <<>>

\* The dates a call can be made on, and a prompt with its placeholder filled.
Dates == {"2025-01-01", "2026-11-03"}
Dated(prompt, date) ==
    [i \in 1..Len(prompt) |-> IF prompt[i] = "{current_date}" THEN date ELSE prompt[i]]

\* C18: ingest_and_rewrite returns the prompt with the current date in place
\* of its placeholder, a blank line, the search response's body, a blank line
\* and "User Query: " followed by the query.
C18_RewriteIsDatedPrompt ==
    (last.op = "ingest_and_rewrite" /\ last.ok) =>
        \E q \in Msgs, body \in Bodies, date \in Dates :
            last.arg = Dated(PROMPT, date) \o <<"\n\n">> \o body \o <<"\n\n">>
                           \o <<"User Query: ">> \o q

\* C19: no failure of the rewrite or of a completion leaves the submission
\* handler as an exception: the run ends in an inline error and a stop.
C19_FailuresAreShown ==
    last.op = "chat_input" => last.end \in {"rerun", "stop"}

\* C20: no ingest_memories call is made for the persona "Control" or for no
\* persona: both Ingest buttons then show a warning and send nothing; Preview
\* and Clear send nothing.
C20_ImportRefusedForControl ==
    /\ \A i \in 1..Len(calls) :
          calls[i].fn = "ingest_memories" =>
              calls[i].persona \notin {<<>>, <<"Control">>}
    /\ last.op \in {"preview", "clear_preview"} => (calls = <<>> /\ requests = <<>>)
    /\ (last.op \in {"ingest_direct", "ingest_preview"}
            /\ persona_name \in {<<>>, <<"Control">>}) =>
          /\ calls = <<>>
          /\ requests = <<>>
          /\ ~last.ok
          /\ last.error \in {"select_persona", "paste_first"}

\* C20's case: the preview's Ingest button was pressed for Control.
C20_Witness ==
    /\ last.op = "ingest_preview"
    /\ persona_name = <<"Control">>
    /\ last.error = "select_persona"
    /\ memories_preview # <<>>

\* C21: a rejected session operation leaves the whole session state as it
\* was (registry, order list, active session, histories, history view,
\* rename-sync fields): create_session with a name in use, rename_session to a
\* blank, identical or used name, delete_session of an unknown session or of
\* the only one; and so does the run of a sidebar handler that rejects.
C21_RejectedLeavesState ==
    /\ [](\A raw \in NameInputs :
             Strip(raw) \in DOMAIN sessions =>
                 /\ ~create_session(SS, raw).ok
                 /\ create_session(SS, raw).st = SS)
    /\ [](\A n \in DOMAIN sessions, raw \in NameInputs :
             (Strip(raw) = <<>> \/ Strip(raw) = n \/ Strip(raw) \in DOMAIN sessions) =>
                 rename_session(SS, n, raw) = [st |-> SS, ok |-> FALSE])
    /\ [](\A n \in DOMAIN sessions \cup TypedNames :
             (n \notin DOMAIN sessions \/ Cardinality(DOMAIN sessions) = 1) =>
                 delete_session(SS, n) = [st |-> SS, ok |-> FALSE])
    /\ [][(last'.op \in {"create_session", "rename_session", "delete_session"}
              /\ ~last'.ok) => UNCHANGED sessVars]_vars

\* C21's case: the deletion of the only session, which holds a history, was
\* refused.
C21_Witness ==
    /\ last.op = "delete_session"
    /\ ~last.ok
    /\ Len(session_order) = 1
    /\ ActiveHistory # <<>>

\* The last entry of every run of same-role entries of out, in order.
LastOfRuns(out) ==
    LET idx == {i \in 1..Len(out) : i = Len(out) \/ out[i + 1].role # out[i].role}
    IN  [k \in 1..Cardinality(idx) |->
            out[CHOOSE i \in idx : Cardinality({j \in idx : j <= i}) = k]]

\* C22: of a run of consecutive same-role entries, clean_history keeps the
\* most recent one: the cleaned history of every session, for every persona,
\* is the last entry of each run of its filtered turns.
C22_CollapseKeepsLast ==
    \A n \in DOMAIN sessions, p \in CleanPersonas :
        clean_history(sessions[n].history, p)
            = LastOfRuns(FilterTurns(sessions[n].history, p))

\* The text rewrite_message returns for msg when its requests succeed.
RewrittenTexts(msg, persona, mem) ==
    {rewrite_message(msg, persona, show_rationale, mem, BACKEND_API_KEY, env).ret :
        env \in {e \in ChatEnvs : e.post = "ok" /\ e.search = "ok"}}

\* The first and the second completion of a submission.
FirstChat == CHOOSE i \in ChatCalls : \A j \in ChatCalls : i <= j
IsControlPass(i) == i \in ChatCalls /\ i # FirstChat

\* C23: the messages of every completion end with exactly one user entry,
\* whose content is the text rewritten for that completion (for the persona
\* with the memory setting in effect, for Control without memory): the entry
\* before it is not a user entry, and append_user_turn replaces a trailing user
\* entry and appends otherwise.
C23_OneTrailingUserEntry ==
    /\ last.op = "chat_input" =>
          \A i \in ChatCalls :
              LET m == calls[i].msgs
              IN  /\ m # <<>>
                  /\ m[Len(m)].role = "user"
                  /\ Len(m) >= 2 => m[Len(m) - 1].role # "user"
                  /\ m[Len(m)].content \in
                        (IF IsControlPass(i)
                         THEN RewrittenTexts(last.arg, <<"Control">>, FALSE)
                         ELSE RewrittenTexts(last.arg, persona_name, memmachine_enabled))
    /\ \A n \in DOMAIN sessions, p \in CleanPersonas, t \in Msgs :
          LET c == clean_history(sessions[n].history, p)
              a == append_user_turn(c, t)
              k == IF c # <<>> /\ c[Len(c)].role = "user" THEN Len(c) - 1 ELSE Len(c)
          IN  /\ Len(a) = k + 1
              /\ a[k + 1] = [role |-> "user", content |-> t]
              /\ \A j \in 1..k : a[j] = c[j]

\* C23's case: a comparison was made with memory in a session whose earlier
\* submission had failed, so that the history held two user turns in a row.
C23_Witness ==
    /\ last.op = "chat_input"
    /\ last.ok
    /\ Cardinality(ChatCalls) = 2
    /\ requests # <<>>
    /\ Len(ActiveHistory) = 3
    /\ ActiveHistory[2].role = "user"
    /\ ActiveHistory[1].content # ActiveHistory[2].content

\* Whether a submission reaches the memory service, the calls of a complete
\* submission in their order, and the paths of its two requests.
MemoryInEffect == ~BypassMemory(persona_name, memmachine_enabled)
ExpectedCalls ==
    IF CompareLocal
    THEN <<"history.append", "ingest_and_rewrite", "chat", "chat", "history.append">>
    ELSE <<"history.append", "ingest_and_rewrite", "chat", "history.append">>
ExpectedPaths == <<"/v1/memories", "/v1/memories/search">>
IsPrefix(a, b) == Len(a) <= Len(b) /\ \A i \in 1..Len(a) : a[i] = b[i]
CallNames(cs) == [i \in 1..Len(cs) |-> cs[i].fn]
Paths(rs) == [i \in 1..Len(rs) |-> rs[i].path]
\* The submission of msg in the current state when its calls end as env tells.
Resubmitted(msg, env) ==
    OnChatInput(Prologue(SS), msg, persona_name, show_rationale, CompareLocal,
                memmachine_enabled, BACKEND_API_KEY, env)
\* The calls r made before the one that failed: the episode post, the search,
\* the first completion.
StopsAfterFailure(r, env) ==
    /\ env.post # "ok" =>
          /\ Len(r.requests) = 1
          /\ CallNames(r.calls) = <<"history.append", "ingest_and_rewrite">>
    /\ (env.post = "ok" /\ env.search # "ok") =>
          /\ Len(r.requests) = 2
          /\ CallNames(r.calls) = <<"history.append", "ingest_and_rewrite">>
    /\ (env.post = "ok" /\ env.search = "ok" /\ env.chat1 # "ok") =>
          CallNames(r.calls) = <<"history.append", "ingest_and_rewrite", "chat">>

\* C24: a submission with memory in effect makes its calls in one order, each
\* at most once: the user turn's append, the episode post, the search, the
\* persona's completion, in comparison mode the control completion, the answer
\* turn's append; and a submission made again in that state makes no call after
\* one that failed.
C24_CallsInOrder ==
    (last.op = "chat_input" /\ MemoryInEffect) =>
        /\ IsPrefix(CallNames(calls), ExpectedCalls)
        /\ IsPrefix(Paths(requests), ExpectedPaths)
        /\ last.ok <=> CallNames(calls) = ExpectedCalls
        /\ \A msg \in Msgs, env \in ChatEnvs :
              /\ IsPrefix(CallNames(Resubmitted(msg, env).calls), ExpectedCalls)
              /\ IsPrefix(Paths(Resubmitted(msg, env).requests), ExpectedPaths)
              /\ StopsAfterFailure(Resubmitted(msg, env), env)

\* C25: ingest_and_rewrite returns a string only when its episode post and its
\* search both succeeded; a request error or a non-success status of either
\* makes the call raise.
C25_RewriteNeedsBothRequests ==
    last.op = "ingest_and_rewrite" =>
        \A q \in Msgs, post \in NetOutcomes, search \in NetOutcomes, body \in Bodies :
            LET r == ingest_and_rewrite(calls[1].persona, q, BACKEND_API_KEY,
                                        post, search, body)
            IN  IF post = "ok" /\ search = "ok"
                THEN r.raised = "" /\ r.ret # <<>>
                ELSE r.raised # "" /\ r.ret = <<>>

\* The registry f with the key n renamed to t, and the list s with n renamed.
Rekeyed(f, g, n, t) ==
    /\ DOMAIN g = (DOMAIN f \ {n}) \cup {t}
    /\ g[t] = f[n]
    /\ \A m \in DOMAIN f \ {n} : g[m] = f[m]
Renamed(s, u, n, t) ==
    /\ Len(u) = Len(s)
    /\ \A i \in 1..Len(s) : u[i] = IF s[i] = n THEN t ELSE s[i]

\* C26: a successful rename changes the key of the renamed session only: its
\* history, its place in the order list and the other sessions stay; the
\* active session follows the rename when it was the renamed one and stays
\* otherwise; after the run the history view is the active session's and the
\* rename-sync fields name the active session, unchanged when another
\* session was renamed.
C26_RenameChangesKeyOnly ==
    /\ [](\A n \in DOMAIN sessions, t \in TypedNames \ DOMAIN sessions :
             /\ rename_session(SS, n, t).ok
             /\ Rekeyed(sessions, rename_session(SS, n, t).st.sessions, n, t)
             /\ Renamed(session_order, rename_session(SS, n, t).st.session_order, n, t)
             /\ rename_session(SS, n, t).st.active_session_id
                   = (IF active_session_id = n THEN t ELSE active_session_id)
             /\ rename_session(SS, n, t).st.history
                   = (IF active_session_id = n THEN t ELSE active_session_id))
    /\ [][(last'.op = "rename_session" /\ last'.ok) =>
              /\ \E t \in DOMAIN sessions' \ DOMAIN sessions :
                    /\ Rekeyed(sessions, sessions', last'.arg, t)
                    /\ Renamed(session_order, session_order', last'.arg, t)
                    /\ active_session_id'
                          = (IF active_session_id = last'.arg THEN t
                             ELSE active_session_id)
              /\ history' = active_session_id'
              /\ session_select' = active_session_id'
              /\ rename_session_name' = active_session_id'
              /\ rename_session_synced_to' = active_session_id'
              /\ active_session_id # last'.arg =>
                    UNCHANGED <<active_session_id, session_select, history,
                                rename_session_name, rename_session_synced_to>>]_vars

\* C26's case: a session that holds a history and is not the active one was
\* renamed.
C26_Witness ==
    /\ last.op = "rename_session"
    /\ last.ok
    /\ session_order[1] = <<"a">>
    /\ active_session_id # <<"a">>
    /\ sessions[<<"a">>].history # <<>>
    /\ last.arg \notin DOMAIN sessions

\* The list s without n, and the registry g as f without n.
Without(s, n) == SelectSeq(s, LAMBDA x : x # n)
Dropped(f, g, n) ==
    /\ DOMAIN g = DOMAIN f \ {n}
    /\ \A m \in DOMAIN g : g[m] = f[m]

\* C27: a successful deletion of the active session makes the last session of
\* the remaining order list active, and the history view, the selection and
\* the rename-sync fields follow; a deletion of another session leaves the
\* active session as it was; the remaining sessions keep their histories and
\* their relative order.
C27_DeleteMovesActiveToLast ==
    /\ [](\A n \in DOMAIN sessions :
             Len(session_order) > 1 =>
                 LET r == delete_session(SS, n)
                     rest == Without(session_order, n)
                 IN  /\ r.ok
                     /\ r.st.session_order = rest
                     /\ Dropped(sessions, r.st.sessions, n)
                     /\ r.st.history = r.st.active_session_id
                     /\ IF active_session_id = n
                        THEN /\ r.st.active_session_id = rest[Len(rest)]
                             /\ r.st.session_select = rest[Len(rest)]
                             /\ r.st.rename_session_name = rest[Len(rest)]
                             /\ r.st.rename_session_synced_to = rest[Len(rest)]
                        ELSE /\ r.st.active_session_id = active_session_id
                             /\ r.st.session_select = session_select
                             /\ r.st.rename_session_name = rename_session_name
                             /\ r.st.rename_session_synced_to = rename_session_synced_to)
    /\ [][(last'.op = "delete_session" /\ last'.ok) =>
              /\ session_order' = Without(session_order, last'.arg)
              /\ Dropped(sessions, sessions', last'.arg)
              /\ active_session_id'
                    = (IF active_session_id = last'.arg
                       THEN session_order'[Len(session_order')]
                       ELSE active_session_id)
              /\ history' = active_session_id'
              /\ session_select' = active_session_id'
              /\ rename_session_name' = active_session_id'
              /\ rename_session_synced_to' = active_session_id']_vars

\* C27's case: a session was deleted out of three, and the active session is
\* the last of the two that remain and holds a history.
C27_Witness ==
    /\ last.op = "delete_session"
    /\ last.ok
    /\ Len(session_order) = 2
    /\ active_session_id = session_order[2]
    /\ ActiveHistory # <<>>

\* "Session k" as _generate_session_name formats it.
KthName(k) == <<"Session", " ", ToString(k)>>

\* C28: create_session with a blank name succeeds in every state: the name is
\* "Session k" for the least k >= 1 that no session has, the new session has
\* an empty history, is appended at the end of the order list and is active,
\* and the sessions there were stay as they are.
C28_BlankCreateSucceeds ==
    /\ \A raw \in {x \in NameInputs : Strip(x) = <<>>} :
          LET r == create_session(SS, raw)
          IN  /\ r.ok
              /\ \E k \in 1..(Len(session_order) + 1) :
                    /\ r.name = KthName(k)
                    /\ KthName(k) \notin DOMAIN sessions
                    /\ \A j \in 1..(k - 1) : KthName(j) \in DOMAIN sessions
              /\ DOMAIN r.st.sessions = DOMAIN sessions \cup {r.name}
              /\ r.st.sessions[r.name].history = <<>>
              /\ \A m \in DOMAIN sessions : r.st.sessions[m] = sessions[m]
              /\ r.st.session_order = Append(session_order, r.name)
              /\ r.st.active_session_id = r.name
              /\ r.st.history = r.name
    /\ (last.op = "create_session" /\ last.ok) =>
          /\ session_order[Len(session_order)] = last.arg
          /\ active_session_id = last.arg
          /\ history = last.arg
          /\ ActiveHistory = <<>>

\* C28's case: "Session 1" was created again after the first session had gone,
\* while "Session 2" is in use.
C28_Witness ==
    /\ last.op = "create_session"
    /\ last.ok
    /\ last.arg = KthName(1)
    /\ Len(session_order) = 2
    /\ session_order[1] = KthName(2)

AnswerRoles == {"assistant", "assistant_all"}
\* The turns of the list h that are answers still flagged as fresh.
FreshIn(h) == {i \in 1..Len(h) : h[i].role \in AnswerRoles /\ h[i].is_new}
\* The outcomes with which a submission reaches the append of its answer.
Answered ==
    {e \in ChatEnvs : e.search = "ok" /\ e.chat1 = "ok" /\ e.chat2 = "ok"}
\* h is a history as the handler's append left it and g the same history
\* after the run that follows: the last turn was fresh and is not any more.
Revealed(h, g) ==
    /\ FreshIn(h) = {Len(h)}
    /\ Len(g) = Len(h)
    /\ FreshIn(g) = {}
    /\ g[Len(g)] = [h[Len(h)] EXCEPT !.is_new = FALSE]
    /\ \A i \in 1..(Len(h) - 1) : g[i] = h[i]
\* S is the state the handler left at its append, T the state after the rerun.
RevealedOnce(S, T) ==
    /\ Revealed(HistoryOf(S), HistoryOf(T))
    /\ Render(T) = T
AppendedFresh(r) ==
    r.end = "rerun" => RevealedOnce(r.st, Render(Prologue(r.st)))

\* C29: an answer turn is appended with its flag set, the run that follows
\* the append clears the flag and changes nothing else of the turn, a later
\* render leaves the flag cleared, and after every run no turn of any session
\* is fresh.
C29_FreshUntilRendered ==
    /\ \A n \in DOMAIN sessions : FreshIn(sessions[n].history) = {}
    /\ \A msg \in Msgs, env \in Answered : AppendedFresh(Resubmitted(msg, env))

\* C29's case: a comparison was answered in a session that holds a
\* single-answer turn.
C29_Witness ==
    /\ last.op = "chat_input"
    /\ last.ok
    /\ Len(ActiveHistory) = 4
    /\ ActiveHistory[2].role = "assistant"
    /\ ActiveHistory[4].role = "assistant_all"

\* The active history as the completions of the last submission found it.
HistoryBefore ==
    IF last.ok THEN SubSeq(ActiveHistory, 1, Len(ActiveHistory) - 1) ELSE ActiveHistory
SingleAnswers(h, persona) ==
    {h[j].content : j \in {k \in 1..Len(h) : h[k].role = "assistant"
                                              /\ h[k].persona = persona}}

\* C30: the messages of a completion hold user entries and the single-answer
\* turns of the persona the history was cleaned for, never a comparison turn;
\* in a session with no single-answer turn every completion gets one message,
\* a user entry.
C30_NoComparisonTurnSent ==
    /\ last.op = "chat_input" =>
          \A i \in ChatCalls :
              LET m == calls[i].msgs
                  target == IF IsControlPass(i) THEN <<"Control">> ELSE persona_name
              IN  /\ \A k \in 1..Len(m) :
                        /\ DOMAIN m[k] = {"role", "content"}
                        /\ m[k].role \in {"user", "assistant"}
                        /\ m[k].role = "assistant" =>
                              m[k].content \in SingleAnswers(HistoryBefore, target)
                  /\ (\A j \in 1..Len(HistoryBefore) :
                          HistoryBefore[j].role # "assistant") =>
                        (Len(m) = 1 /\ m[1].role = "user")
    /\ \A n \in DOMAIN sessions, p \in CleanPersonas :
          \A k \in 1..Len(clean_history(sessions[n].history, p)) :
              clean_history(sessions[n].history, p)[k].role \in {"user", "assistant"}

\* C30's case: a second comparison was made in a session whose only answer
\* was a comparison turn.
C30_Witness ==
    /\ last.op = "chat_input"
    /\ last.ok
    /\ Len(ActiveHistory) = 4
    /\ ActiveHistory[2].role = "assistant_all"
    /\ ActiveHistory[4].role = "assistant_all"
    /\ Cardinality(ChatCalls) = 2
    /\ \A i \in ChatCalls : Len(calls[i].msgs) = 1

\* The registry and the order list of S hold the same names, the order list
\* is not empty and the active session is registered.
Registered(S) ==
    /\ Names(S.session_order) = DOMAIN S.sessions
    /\ S.session_order # <<>>
    /\ S.active_session_id \in DOMAIN S.sessions

\* C31: in every state the names of the order list are the keys of the
\* registry, the order list is not empty and the active session is a key of
\* the registry; and so it is in the state ensure_session_state,
\* create_session, rename_session and delete_session leave, whatever their
\* arguments.
C31_RegistryMatchesOrder ==
    /\ Registered(SS)
    /\ Registered(ensure_session_state(SS))
    /\ \A raw \in NameInputs : Registered(create_session(SS, raw).st)
    /\ \A n \in DOMAIN sessions, raw \in NameInputs :
          Registered(rename_session(SS, n, raw).st)
    /\ \A n \in DOMAIN sessions \cup TypedNames : Registered(delete_session(SS, n).st)

\* C31's case: after a rename and a creation, with a history held, three
\* sessions are registered, none of them under the first session's first name,
\* and the user has switched between them.
C31_Witness ==
    /\ last.op = "switch"
    /\ last.ok
    /\ Len(session_order) = 3
    /\ KthName(1) \notin DOMAIN sessions
    /\ \E n \in DOMAIN sessions : sessions[n].history # <<>>

\* The history h starts with a user turn and every answer turn of it comes
\* right after a user turn.
AnswersFollowUser(h) ==
    /\ h # <<>> => h[1].role = "user"
    /\ \A i \in 1..Len(h) :
          h[i].role \in AnswerRoles => (i > 1 /\ h[i - 1].role = "user")

\* C32: in the history of every session the first turn is a user turn and
\* every single-answer or comparison turn is immediately preceded by a user
\* turn.
C32_AnswersFollowUserTurns ==
    \A n \in DOMAIN sessions : AnswersFollowUser(sessions[n].history)

\* C32's case: a single answer was appended after two user turns in a row, the
\* first left by a submission that failed.
C32_Witness ==
    /\ last.op = "chat_input"
    /\ last.ok
    /\ Len(ActiveHistory) = 3
    /\ ActiveHistory[2].role = "user"
    /\ ActiveHistory[3].role = "assistant"

\* C33: a persona for which rewrite_message leaves the memory service out
\* although memory is on is completed with the persona argument "Arnold" and
\* is refused for memory import; and a single-mode submission with memory on
\* that made no call to the memory service made its completion with "Arnold".
C33_ControlAgreement ==
    /\ BypassMemory(persona_name, TRUE) =>
          /\ SinglePersonaArg(persona_name, TRUE) = <<"Arnold">>
          /\ ~ImportAllowed(persona_name)
    /\ (last.op = "chat_input" /\ memmachine_enabled /\ ~CompareLocal
            /\ \A j \in 1..Len(calls) : calls[j].fn # "ingest_and_rewrite") =>
          \A i \in ChatCalls : calls[i].persona = <<"Arnold">>

====
